---------------------------- MODULE Spec2Model ----------------------------
(***************************************************************************)
(* FixedMemoryResource (a fixed-capacity arena with bump allocation and    *)
(* free-block reuse) and Queue<T> (a singly linked FIFO whose nodes are    *)
(* allocated through std::pmr::polymorphic_allocator from such an arena).  *)
(*                                                                         *)
(* Addresses are absolute integers.  size_t arithmetic is taken modulo     *)
(* Word = 2^WordBits (the width is scaled down from 64 bits).              *)
(***************************************************************************)
EXTENDS Integers, Sequences, FiniteSets, TLC

\* ------------------------------------------------------------------ bounds
WordBits == 9          \* scaled width of size_t
ArenaCap == 2          \* pool_size_ of the arena in the arena-only runs
SmallCap == 1          \* pool_size_ of the arena in the full-arena runs
MaxBytes == 1          \* request sizes are 0..MaxBytes and Word-1
MaxBlocks == 2         \* cap on the number of registry entries (live + free)
CrossNodes == 2        \* pool_size_ / NodeSize of each arena in the two-arena runs
MaxNodes == 3          \* pool_size_ / NodeSize of the arena the queues share
ReuseNodes == 4        \* pool_size_ / NodeSize in the single-queue runs
CopyNodes == 4         \* pool_size_ / NodeSize in the copy and move runs
MaxVal == 2            \* element values are 1..MaxVal

\* ------------------------------------------------------- program constants
NewAlign == 16         \* alignment guaranteed for the pointer ::operator new returns
NodeSize == 16         \* sizeof(Queue<int>::Node): int data, padding, Node* next
NodeAlign == 8         \* alignof(Queue<int>::Node)
NULL == 0              \* nullptr

Min(S) == CHOOSE x \in S : \A y \in S : x <= y
Max(S) == CHOOSE x \in S : \A y \in S : x >= y
RemoveAt(s, i) == SubSeq(s, 1, i - 1) \o SubSeq(s, i + 1, Len(s))

Word == 2 ^ WordBits
W(x) == x % Word

Arenas == {1, 2}
Queues == {1, 2}
Values == 1 .. MaxVal
\* Where ::operator new put the buffer of arena a in the queue runs: distinct
\* buffers, each aligned to NewAlign.
PoolStride == (Max({CrossNodes, MaxNodes, ReuseNodes, CopyNodes}) + 1) * NewAlign
PoolBase(a) == a * PoolStride
NodeAddrs == {PoolBase(a) + k * NodeSize : a \in Arenas, k \in 0 .. Max({CrossNodes, MaxNodes, ReuseNodes, CopyNodes}) - 1}
AllocSizes == (0 .. MaxBytes) \cup {Word - 1}
\* 2 * NewAlign is an over-aligned request, beyond what operator new guarantees
Alignments == {1, 2 * NewAlign}


VARIABLES
    arena,      \* arena[a]: the fields of FixedMemoryResource object a
    queues,     \* queues[q]: the fields of Queue object q
    mem,        \* mem[p]: the Node constructed at address p
    status,     \* "running", or "terminated" once the process has died
    last,       \* history: the last call, its arguments and its outcome
    highWater,  \* history, kept in the single-queue runs: the largest size() so far
    fifo,       \* history, kept in the single-queue runs: the values pushed and not yet popped
    iter        \* the fields of the program's Queue<T>::Iterator object

vars == <<arena, queues, mem, status, last, highWater, fifo, iter>>

\* ------------------------------------------------- FixedMemoryResource
\* The state right after FixedMemoryResource(size): memory_pool_ is what
\* ::operator new returned.
NewArena(pool, size) ==
    [alive |-> TRUE, memory_pool_ |-> pool, pool_size_ |-> size, current_offset_ |-> 0,
     allocated_blocks_ |-> {}, free_blocks_ |-> <<>>]
\* A FixedMemoryResource object that is not constructed (or was destroyed).
NoArena ==
    [alive |-> FALSE, memory_pool_ |-> 0, pool_size_ |-> 0, current_offset_ |-> 0,
     allocated_blocks_ |-> {}, free_blocks_ |-> <<>>]

\* allocated_blocks_ is the set of the map's entries [ptr, size], one per key;
\* free_blocks_ is the multimap's entries [size, ptr] in iteration order.
LivePtrs(A) == {e.ptr : e \in A.allocated_blocks_}
FreePtrs(A) == {A.free_blocks_[i].ptr : i \in 1 .. Len(A.free_blocks_)}
get_allocated_count(A) == Cardinality(LivePtrs(A))
get_free_count(A) == Len(A.free_blocks_)
get_current_offset(A) == A.current_offset_

\* std::map::operator[] assignment: allocated_blocks_[ptr] = bytes
MapPut(m, ptr, bytes) == {e \in m : e.ptr # ptr} \cup {[ptr |-> ptr, size |-> bytes]}
\* std::map::erase
MapErase(m, ptr) == {e \in m : e.ptr # ptr}
\* std::multimap::insert: after the last entry whose key is <= bytes
MultimapInsert(fb, bytes, ptr) ==
    LET k == Cardinality({i \in 1 .. Len(fb) : fb[i].size <= bytes})
    IN  SubSeq(fb, 1, k) \o <<[size |-> bytes, ptr |-> ptr]>> \o SubSeq(fb, k + 1, Len(fb))
\* std::multimap::lower_bound: the first entry whose key is >= bytes
LowerBound(fb, bytes) ==
    LET ge == {i \in 1 .. Len(fb) : fb[i].size >= bytes}
    IN  IF ge = {} THEN Len(fb) + 1 ELSE Min(ge)

\* A faulty variant: scans from upper_bound, so a block of exactly the requested size is skipped
find_free_block_upper(A, bytes, alignment) ==
    LET fb == A.free_blocks_
        ok == {i \in 1 .. Len(fb) : fb[i].size > bytes /\ fb[i].ptr % alignment = 0}
    IN  IF ok = {} THEN [ptr |-> NULL, free_blocks_ |-> fb]
        ELSE [ptr |-> fb[Min(ok)].ptr, free_blocks_ |-> RemoveAt(fb, Min(ok))]

\* A faulty variant: takes the last (largest) qualifying entry instead of the first
find_free_block_largest(A, bytes, alignment) ==
    LET fb == A.free_blocks_
        ok == {i \in LowerBound(fb, bytes) .. Len(fb) : fb[i].ptr % alignment = 0}
    IN  IF ok = {} THEN [ptr |-> NULL, free_blocks_ |-> fb]
        ELSE [ptr |-> fb[Max(ok)].ptr, free_blocks_ |-> RemoveAt(fb, Max(ok))]

find_free_block(A, bytes, alignment) ==
    LET fb == A.free_blocks_
        ok == {i \in LowerBound(fb, bytes) .. Len(fb) : fb[i].ptr % alignment = 0}
    IN  IF ok = {} THEN [ptr |-> NULL, free_blocks_ |-> fb]
        ELSE [ptr |-> fb[Min(ok)].ptr, free_blocks_ |-> RemoveAt(fb, Min(ok))]

AlignedOffset(A, alignment) ==
    W((W(A.current_offset_ + alignment - 1) \div alignment) * alignment)

\* A faulty variant: advances current_offset_ before the capacity check
do_allocate_early_bump(A, bytes, alignment) ==
    LET f == find_free_block(A, bytes, alignment)
        aligned_offset == AlignedOffset(A, alignment)
        ptr == W(A.memory_pool_ + aligned_offset)
    IN  IF f.ptr # NULL
        THEN [res |-> "ok", ptr |-> f.ptr,
              A |-> [A EXCEPT !.free_blocks_ = f.free_blocks_,
                              !.allocated_blocks_ = MapPut(@, f.ptr, bytes)]]
        ELSE IF W(aligned_offset + bytes) > A.pool_size_
        THEN [res |-> "OutOfMemory", ptr |-> NULL,
              A |-> [A EXCEPT !.current_offset_ = aligned_offset]]
        ELSE [res |-> "ok", ptr |-> ptr,
              A |-> [A EXCEPT !.allocated_blocks_ = MapPut(@, ptr, bytes),
                              !.current_offset_ = W(aligned_offset + bytes)]]

\* The result of do_allocate on arena state A: the outcome, the pointer
\* returned and the arena state afterwards.
do_allocate(A, bytes, alignment) ==
    LET f == find_free_block(A, bytes, alignment)
        aligned_offset == AlignedOffset(A, alignment)
        ptr == W(A.memory_pool_ + aligned_offset)
    IN  IF f.ptr # NULL
        THEN [res |-> "ok", ptr |-> f.ptr,
              A |-> [A EXCEPT !.free_blocks_ = f.free_blocks_,
                              !.allocated_blocks_ = MapPut(@, f.ptr, bytes)]]
        ELSE IF W(aligned_offset + bytes) > A.pool_size_
        THEN [res |-> "OutOfMemory", ptr |-> NULL, A |-> A]
        ELSE [res |-> "ok", ptr |-> ptr,
              A |-> [A EXCEPT !.allocated_blocks_ = MapPut(@, ptr, bytes),
                              !.current_offset_ = W(aligned_offset + bytes)]]

\* A faulty variant: no membership check, the pointer goes to the free index regardless
do_deallocate_unchecked(A, ptr, bytes) ==
    [res |-> "ok",
     A |-> [A EXCEPT !.allocated_blocks_ = MapErase(@, ptr),
                     !.free_blocks_ = MultimapInsert(@, bytes, ptr)]]

\* The result of do_deallocate (the alignment argument is unused).
do_deallocate(A, ptr, bytes) ==
    IF ptr \notin LivePtrs(A)
    THEN [res |-> "InvalidFree", A |-> A]
    ELSE [res |-> "ok",
          A |-> [A EXCEPT !.allocated_blocks_ = MapErase(@, ptr),
                          !.free_blocks_ = MultimapInsert(@, bytes, ptr)]]


\* A faulty variant: a move constructor that does not reset other's fields.
ArenaMoveConstruct_keep(other) ==
    [new |-> other,
     other |-> [other EXCEPT !.allocated_blocks_ = {}, !.free_blocks_ = <<>>]]

\* FixedMemoryResource(FixedMemoryResource&& other) noexcept: the new object
\* and what is left of other.  The maps other is left with after std::move
\* are empty (the map move constructor takes the whole tree).
ArenaMoveConstruct(other) ==
    [new |-> other,
     other |-> [other EXCEPT !.memory_pool_ = 0, !.pool_size_ = 0,
                             !.current_offset_ = 0,
                             !.allocated_blocks_ = {}, !.free_blocks_ = <<>>]]

\* cleanup(): the buffer goes back to ::operator delete
cleanup(A) == IF A.memory_pool_ # 0 THEN [A EXCEPT !.memory_pool_ = 0] ELSE A

\* ------------------------------------------------------------- Queue<T>
\* The storage at an address where no Node object lives.
NoObject == [data |-> 0, next |-> NULL]
\* Queue(mr): an empty queue whose allocator_ is bound to arena mr.
NewQueue(mr) ==
    [alive |-> TRUE, head_ |-> NULL, tail_ |-> NULL, size_ |-> 0, allocator_ |-> mr]
\* A Queue object that is not constructed (or was destroyed).
NoQueue ==
    [alive |-> FALSE, head_ |-> NULL, tail_ |-> NULL, size_ |-> 0, allocator_ |-> 0]

\* The queue operations are functions of the program state
\* S = [arena, queues, mem]; each yields the outcome and the state after it.
\* Outcome "crash": the call dereferenced a null pointer.

\* allocator_.allocate(n): n * sizeof(Node) bytes aligned to alignof(Node)
allocator_allocate(S, q, n) ==
    do_allocate(S.arena[S.queues[q].allocator_], n * NodeSize, NodeAlign)
\* allocator_.deallocate(p, n)
allocator_deallocate(S, q, p, n) ==
    do_deallocate(S.arena[S.queues[q].allocator_], p, n * NodeSize)

\* A faulty variant: the new Node is linked in front of the head.
push_at_head(S, q, value) ==
    LET Q == S.queues[q]
        r == allocator_allocate(S, q, 1)
        new_node == r.ptr
        S1 == [S EXCEPT !.arena[Q.allocator_] = r.A,
                        !.mem[new_node] = [data |-> value, next |-> Q.head_]]
    IN  IF r.res # "ok" THEN [res |-> "OutOfMemory", S |-> S]
        ELSE [res |-> "ok",
              S |-> [S1 EXCEPT !.queues[q].head_ = new_node,
                               !.queues[q].tail_ = IF Q.size_ = 0 THEN new_node ELSE @,
                               !.queues[q].size_ = @ + 1]]

\* A faulty variant: the length is counted before the Node is allocated.
push_count_first(S, q, value) ==
    LET Q == S.queues[q]
        r == allocator_allocate(S, q, 1)
        new_node == r.ptr
        S1 == [S EXCEPT !.arena[Q.allocator_] = r.A,
                        !.mem[new_node] = [data |-> value, next |-> NULL]]
    IN  IF r.res # "ok"
        THEN [res |-> "OutOfMemory", S |-> [S EXCEPT !.queues[q].size_ = @ + 1]]
        ELSE IF Q.size_ = 0
        THEN [res |-> "ok",
              S |-> [S1 EXCEPT !.queues[q].head_ = new_node,
                               !.queues[q].tail_ = new_node,
                               !.queues[q].size_ = 1]]
        ELSE IF Q.tail_ = NULL THEN [res |-> "crash", S |-> S1]
        ELSE [res |-> "ok",
              S |-> [S1 EXCEPT !.mem[Q.tail_].next = new_node,
                               !.queues[q].tail_ = new_node,
                               !.queues[q].size_ = @ + 1]]

\* A faulty variant: the length is counted only for the first Node.
push_uncounted(S, q, value) ==
    LET Q == S.queues[q]
        r == allocator_allocate(S, q, 1)
        new_node == r.ptr
        S1 == [S EXCEPT !.arena[Q.allocator_] = r.A,
                        !.mem[new_node] = [data |-> value, next |-> NULL]]
    IN  IF r.res # "ok" THEN [res |-> "OutOfMemory", S |-> S]
        ELSE IF Q.size_ = 0
        THEN [res |-> "ok",
              S |-> [S1 EXCEPT !.queues[q].head_ = new_node,
                               !.queues[q].tail_ = new_node,
                               !.queues[q].size_ = 1]]
        ELSE IF Q.tail_ = NULL THEN [res |-> "crash", S |-> S1]
        ELSE [res |-> "ok",
              S |-> [S1 EXCEPT !.mem[Q.tail_].next = new_node,
                               !.queues[q].tail_ = new_node]]

push(S, q, value) ==
    LET Q == S.queues[q]
        r == allocator_allocate(S, q, 1)
        new_node == r.ptr
        S1 == [S EXCEPT !.arena[Q.allocator_] = r.A,
                        !.mem[new_node] = [data |-> value, next |-> NULL]]
    IN  IF r.res # "ok" THEN [res |-> "OutOfMemory", S |-> S]
        ELSE IF Q.size_ = 0
        THEN [res |-> "ok",
              S |-> [S1 EXCEPT !.queues[q].head_ = new_node,
                               !.queues[q].tail_ = new_node,
                               !.queues[q].size_ = 1]]
        ELSE IF Q.tail_ = NULL THEN [res |-> "crash", S |-> S1]
        ELSE [res |-> "ok",
              S |-> [S1 EXCEPT !.mem[Q.tail_].next = new_node,
                               !.queues[q].tail_ = new_node,
                               !.queues[q].size_ = @ + 1]]

\* A faulty variant: pop() without the check for the empty queue.
pop_unguarded(S, q) ==
    LET Q == S.queues[q]
        old_head == Q.head_
        nxt == S.mem[old_head].next
        d == allocator_deallocate(S, q, old_head, 1)
        S1 == [S EXCEPT !.queues[q].head_ = nxt,
                        !.queues[q].tail_ = IF nxt = NULL THEN NULL ELSE @,
                        !.mem[old_head] = NoObject]
    IN  IF old_head = NULL THEN [res |-> "crash", S |-> S]
        ELSE IF d.res # "ok" THEN [res |-> "InvalidFree", S |-> S1]
        ELSE [res |-> "ok",
              S |-> [S1 EXCEPT !.arena[Q.allocator_] = d.A,
                               !.queues[q].size_ = @ - 1]]

pop(S, q) ==
    LET Q == S.queues[q]
        old_head == Q.head_
        nxt == S.mem[old_head].next
        d == allocator_deallocate(S, q, old_head, 1)
        S1 == [S EXCEPT !.queues[q].head_ = nxt,
                        !.queues[q].tail_ = IF nxt = NULL THEN NULL ELSE @,
                        !.mem[old_head] = NoObject]
    IN  IF Q.size_ = 0 THEN [res |-> "EmptyQueueError", S |-> S]
        ELSE IF old_head = NULL THEN [res |-> "crash", S |-> S]
        ELSE IF d.res # "ok" THEN [res |-> "InvalidFree", S |-> S1]
        ELSE [res |-> "ok",
              S |-> [S1 EXCEPT !.arena[Q.allocator_] = d.A,
                               !.queues[q].size_ = @ - 1]]

\* A faulty variant: back() reads the first Node.
back_first(S, q) ==
    LET Q == S.queues[q]
    IN  IF Q.size_ = 0 THEN [res |-> "EmptyQueueError", val |-> 0]
        ELSE IF Q.tail_ = NULL THEN [res |-> "crash", val |-> 0]
        ELSE [res |-> "ok", val |-> S.mem[Q.head_].data]

front(S, q) ==
    LET Q == S.queues[q]
    IN  IF Q.size_ = 0 THEN [res |-> "EmptyQueueError", val |-> 0]
        ELSE IF Q.head_ = NULL THEN [res |-> "crash", val |-> 0]
        ELSE [res |-> "ok", val |-> S.mem[Q.head_].data]

back(S, q) ==
    LET Q == S.queues[q]
    IN  IF Q.size_ = 0 THEN [res |-> "EmptyQueueError", val |-> 0]
        ELSE IF Q.tail_ = NULL THEN [res |-> "crash", val |-> 0]
        ELSE [res |-> "ok", val |-> S.mem[Q.tail_].data]

\* empty() and size()
empty(S, q) == S.queues[q].size_ = 0
size(S, q) == S.queues[q].size_

\* A faulty variant: clear() that pops once instead of looping.
clear_once(S, q) ==
    IF S.queues[q].size_ = 0 THEN [res |-> "ok", S |-> S]
    ELSE pop(S, q)

RECURSIVE clear(_, _)
clear(S, q) ==
    IF S.queues[q].size_ = 0 THEN [res |-> "ok", S |-> S]
    ELSE LET r == pop(S, q)
         IN  IF r.res # "ok" THEN r ELSE clear(r.S, q)

\* The number of pop() calls the loop of clear() makes before it ends (a pop
\* that throws ends it and is counted).
RECURSIVE ClearPops(_, _)
ClearPops(S, q) ==
    IF empty(S, q) THEN 0
    ELSE LET r == pop(S, q)
         IN  IF r.res # "ok" THEN 1 ELSE 1 + ClearPops(r.S, q)

\* for (current = other.head_; current != nullptr; current = current->next)
\*     push(current->data);
RECURSIVE CopyLoop(_, _, _)
CopyLoop(S, q, current) ==
    IF current = NULL THEN [res |-> "ok", S |-> S]
    ELSE LET r == push(S, q, S.mem[current].data)
         IN  IF r.res # "ok" THEN r ELSE CopyLoop(r.S, q, r.S.mem[current].next)

\* ~Queue(): an exception that leaves a destructor ends the process.
Destroy(S, q) ==
    LET r == clear(S, q)
    IN  IF r.res # "ok" THEN [res |-> "terminate", S |-> r.S]
        ELSE [res |-> "ok", S |-> [r.S EXCEPT !.queues[q] = NoQueue]]

\* A faulty variant: a copy constructor that shares the Nodes of other.
CopyConstruct_shallow(S, q, other) ==
    [res |-> "ok", S |-> [S EXCEPT !.queues[q] = [S.queues[other] EXCEPT !.alive = TRUE]]]

\* Queue(const Queue& other), constructing object q: when a push throws, the
\* object never comes to life and its destructor is not run.
CopyConstruct(S, q, other) ==
    LET S0 == [S EXCEPT !.queues[q] = NewQueue(S.queues[other].allocator_)]
        r == CopyLoop(S0, q, S.queues[other].head_)
    IN  IF r.res # "ok" THEN [res |-> r.res, S |-> [r.S EXCEPT !.queues[q] = NoQueue]]
        ELSE r

\* A faulty variant: copy-assignment that resets the length when a push throws.
CopyAssign_truncate(S, q, other) ==
    IF q = other THEN [res |-> "ok", S |-> S]
    ELSE LET c == clear(S, q)
             r == CopyLoop(c.S, q, c.S.queues[other].head_)
         IN  IF c.res # "ok" THEN c
             ELSE IF r.res # "ok"
             THEN [res |-> r.res, S |-> [r.S EXCEPT !.queues[q].size_ = 0]]
             ELSE r

\* A faulty variant: copy-assignment that does not clear() first.
CopyAssign_append(S, q, other) ==
    IF q = other THEN [res |-> "ok", S |-> S]
    ELSE CopyLoop(S, q, S.queues[other].head_)

\* operator=(const Queue& other)
CopyAssign(S, q, other) ==
    IF q = other THEN [res |-> "ok", S |-> S]
    ELSE LET c == clear(S, q)
         IN  IF c.res # "ok" THEN c
             ELSE CopyLoop(c.S, q, c.S.queues[other].head_)

\* A faulty variant: a move constructor that leaves other as it was.
MoveConstruct_keep(S, q, other) ==
    [res |-> "ok", S |-> [S EXCEPT !.queues[q] = [S.queues[other] EXCEPT !.alive = TRUE]]]

\* Queue(Queue&& other) noexcept, constructing object q
MoveConstruct(S, q, other) ==
    LET O == S.queues[other]
    IN  [res |-> "ok",
         S |-> [S EXCEPT !.queues[q] = [O EXCEPT !.alive = TRUE],
                         !.queues[other].head_ = NULL,
                         !.queues[other].tail_ = NULL,
                         !.queues[other].size_ = 0]]

\* A faulty variant: move-assignment that leaves other as it was.
MoveAssign_keep(S, q, other) ==
    IF q = other THEN [res |-> "ok", S |-> S]
    ELSE LET c == clear(S, q)
             O == c.S.queues[other]
         IN  IF c.res # "ok" THEN [res |-> "terminate", S |-> c.S]
             ELSE [res |-> "ok",
                   S |-> [c.S EXCEPT !.queues[q].head_ = O.head_,
                                     !.queues[q].tail_ = O.tail_,
                                     !.queues[q].size_ = O.size_]]

\* operator=(Queue&& other) noexcept: an exception out of clear() ends the process.
MoveAssign(S, q, other) ==
    IF q = other THEN [res |-> "ok", S |-> S]
    ELSE LET c == clear(S, q)
             O == c.S.queues[other]
         IN  IF c.res # "ok" THEN [res |-> "terminate", S |-> c.S]
             ELSE [res |-> "ok",
                   S |-> [c.S EXCEPT !.queues[q].head_ = O.head_,
                                     !.queues[q].tail_ = O.tail_,
                                     !.queues[q].size_ = O.size_,
                                     !.queues[other].head_ = NULL,
                                     !.queues[other].tail_ = NULL,
                                     !.queues[other].size_ = 0]]

\* The Nodes reachable from pointer p by next links, in order (at most n of them).
RECURSIVE ChainFrom(_, _, _)
ChainFrom(m, p, n) ==
    IF p = NULL \/ n = 0 \/ p \notin DOMAIN m THEN <<>>
    ELSE <<p>> \o ChainFrom(m, m[p].next, n - 1)
Chain(q) == ChainFrom(mem, queues[q].head_, Cardinality(NodeAddrs) + 1)

\* ------------------------------------------------- Queue<T>::Iterator
\* Iterator(node)
Iterator(node) == [current_ |-> node]
begin(S, q) == Iterator(S.queues[q].head_)
end(S, q) == Iterator(NULL)
\* operator*: the outcome and the value of the reference it returns
Deref(m, it) ==
    IF it.current_ = NULL THEN [res |-> "DereferenceError", val |-> 0]
    ELSE [res |-> "ok", val |-> m[it.current_].data]
\* A faulty variant: operator++ that does not step off the last Node.
Increment_stuck(m, it) ==
    IF it.current_ # NULL /\ m[it.current_].next # NULL
    THEN Iterator(m[it.current_].next) ELSE it
\* operator++
Increment(m, it) ==
    IF it.current_ # NULL THEN Iterator(m[it.current_].next) ELSE it
\* operator== and operator!=
IterEq(it, other) == it.current_ = other.current_
IterNe(it, other) == it.current_ # other.current_
\* The iterator points at storage where no Node lives (its Node was popped):
\* reading through it is undefined.
Dangling(m, it) == it.current_ # NULL /\ m[it.current_] = NoObject

\* ------------------------------------------------------------- actions
World == [arena |-> arena, queues |-> queues, mem |-> mem]
NoCall ==
    [op |-> "none", a |-> 0, q |-> 0, other |-> 0, bytes |-> 0, alignment |-> 0,
     ptr |-> NULL, val |-> 0, res |-> "none"]

\* highWater, when Init switched it on: the largest size() queue c.q has had,
\* and current_offset_ of its arena when it first had that size.
Track(S, c) ==
    IF highWater.on /\ c.op = "push" /\ S.queues[c.q].size_ > highWater.n
    THEN [highWater EXCEPT !.n = S.queues[c.q].size_,
                           !.offset = S.arena[S.queues[c.q].allocator_].current_offset_]
    ELSE highWater

\* fifo, when Init switched it on: the sequence a FIFO queue holds after the
\* calls made so far, by what each call returned.
Abstract(c) ==
    IF ~fifo.on THEN fifo
    ELSE IF c.op = "push" /\ c.res = "ok" THEN [fifo EXCEPT !.S = Append(@, c.val)]
    ELSE IF c.op = "pop" /\ c.res = "ok" THEN [fifo EXCEPT !.S = Tail(@)]
    ELSE fifo

\* The step to state S with the iterator left as it, made by the call c.
Step(S, c, it) ==
    /\ arena' = S.arena
    /\ queues' = S.queues
    /\ mem' = S.mem
    /\ status' = IF c.res \in {"crash", "terminate"} THEN "terminated" ELSE "running"
    /\ last' = c
    /\ highWater' = Track(S, c)
    /\ fifo' = Abstract(c)
    /\ iter' = it

\* The step to state S, made by a call c that does not touch the iterator.
Commit(S, c) == Step(S, c, iter)

RegistrySize(A) == get_allocated_count(A) + get_free_count(A)

\* memory_resource::allocate(bytes, alignment) on arena a
Allocate(a, bytes, alignment) ==
    /\ status = "running"
    /\ LET r == do_allocate(arena[a], bytes, alignment)
       IN  /\ RegistrySize(r.A) <= MaxBlocks
           /\ Commit([World EXCEPT !.arena[a] = r.A],
                     [NoCall EXCEPT !.op = "allocate", !.a = a, !.bytes = bytes,
                                    !.alignment = alignment, !.ptr = r.ptr, !.res = r.res])

\* memory_resource::deallocate(ptr, bytes, alignment) on arena a
Deallocate(a, ptr, bytes) ==
    /\ status = "running"
    /\ LET r == do_deallocate(arena[a], ptr, bytes)
       IN  Commit([World EXCEPT !.arena[a] = r.A],
                  [NoCall EXCEPT !.op = "deallocate", !.a = a, !.bytes = bytes,
                                 !.ptr = ptr, !.res = r.res])

\* FixedMemoryResource a(std::move(other))
MoveArena(a, other) ==
    /\ status = "running"
    /\ ~arena[a].alive
    /\ arena[other].alive
    /\ LET r == ArenaMoveConstruct(arena[other])
       IN  Commit([World EXCEPT !.arena[a] = r.new, !.arena[other] = r.other],
                  [NoCall EXCEPT !.op = "arena-move", !.a = a, !.other = other,
                                 !.res = "ok"])

\* ~FixedMemoryResource() of arena a: cleanup(), then the members are destroyed
DestroyArena(a) ==
    /\ status = "running"
    /\ arena[a].alive
    /\ LET A == cleanup(arena[a])
       IN  Commit([World EXCEPT !.arena[a] =
                      [A EXCEPT !.alive = FALSE, !.pool_size_ = 0, !.current_offset_ = 0,
                                !.allocated_blocks_ = {}, !.free_blocks_ = <<>>]],
                  [NoCall EXCEPT !.op = "~arena", !.a = a, !.res = "ok"])

QCall(op, q, other, val, res) ==
    [NoCall EXCEPT !.op = op, !.q = q, !.other = other, !.val = val, !.res = res]

Construct(q, mr) ==
    /\ status = "running"
    /\ ~queues[q].alive
    /\ Commit([World EXCEPT !.queues[q] = NewQueue(mr)],
              QCall("Queue", q, 0, 0, "ok"))

Destruct(q) ==
    /\ status = "running"
    /\ queues[q].alive
    /\ LET r == Destroy(World, q)
       IN  Commit(r.S, QCall("~Queue", q, 0, 0, r.res))

Push(q, value) ==
    /\ status = "running"
    /\ queues[q].alive
    /\ LET r == push(World, q, value)
       IN  Commit(r.S, QCall("push", q, 0, value, r.res))

Pop(q) ==
    /\ status = "running"
    /\ queues[q].alive
    /\ LET r == pop(World, q)
       IN  Commit(r.S, QCall("pop", q, 0, 0, r.res))

Front(q) ==
    /\ status = "running"
    /\ queues[q].alive
    /\ LET r == front(World, q)
       IN  Commit(World, QCall("front", q, 0, r.val, r.res))

Back(q) ==
    /\ status = "running"
    /\ queues[q].alive
    /\ LET r == back(World, q)
       IN  Commit(World, QCall("back", q, 0, r.val, r.res))

\* clear() on queue q; the call record's val is the number of pops it made.
Clear(q) ==
    /\ status = "running"
    /\ queues[q].alive
    /\ LET r == clear(World, q)
       IN  Commit(r.S, QCall("clear", q, 0, ClearPops(World, q), r.res))

CopyCtor(q, other) ==
    /\ status = "running"
    /\ ~queues[q].alive
    /\ queues[other].alive
    /\ LET r == CopyConstruct(World, q, other)
       IN  Commit(r.S, QCall("copy", q, other, 0, r.res))

CopyAsg(q, other) ==
    /\ status = "running"
    /\ queues[q].alive
    /\ queues[other].alive
    /\ LET r == CopyAssign(World, q, other)
       IN  Commit(r.S, QCall("copy=", q, other, 0, r.res))

MoveCtor(q, other) ==
    /\ status = "running"
    /\ ~queues[q].alive
    /\ queues[other].alive
    /\ LET r == MoveConstruct(World, q, other)
       IN  Commit(r.S, QCall("move", q, other, 0, r.res))

MoveAsg(q, other) ==
    /\ status = "running"
    /\ queues[q].alive
    /\ queues[other].alive
    /\ LET r == MoveAssign(World, q, other)
       IN  Commit(r.S, QCall("move=", q, other, 0, r.res))

\* q.front() = value: an assignment through the reference front() returns
SetFront(q, value) ==
    /\ status = "running"
    /\ queues[q].alive
    /\ LET r == front(World, q)
       IN  Commit(IF r.res = "ok"
                  THEN [World EXCEPT !.mem[queues[q].head_].data = value]
                  ELSE World,
                  QCall("front=", q, 0, value, r.res))

\* it = q.begin()
Begin(q) ==
    /\ status = "running"
    /\ queues[q].alive
    /\ Step(World, QCall("begin", q, 0, 0, "ok"), begin(World, q))

\* it = q.end()
End(q) ==
    /\ status = "running"
    /\ queues[q].alive
    /\ Step(World, QCall("end", q, 0, 0, "ok"), end(World, q))

\* What a read through a dangling iterator can give: any value, and as next
\* pointer nullptr or any Node address of the arena the queues of the
\* iterator runs live on.
WildIterators ==
    {Iterator(p) : p \in {PoolBase(1) + k * NodeSize : k \in 0 .. MaxNodes - 1} \cup {NULL}}
WildValues == 0 .. MaxVal

\* ++it
PreIncrement ==
    /\ status = "running"
    /\ \E it \in IF Dangling(mem, iter) THEN WildIterators ELSE {Increment(mem, iter)} :
          Step(World, QCall("++", 0, 0, 0, "ok"), it)

\* it++: the call returns the iterator as it was (its current_ is recorded
\* as the call's ptr)
PostIncrement ==
    /\ status = "running"
    /\ \E it \in IF Dangling(mem, iter) THEN WildIterators ELSE {Increment(mem, iter)} :
          Step(World, [QCall("++(int)", 0, 0, 0, "ok") EXCEPT !.ptr = iter.current_], it)

\* *it
Star ==
    /\ status = "running"
    /\ \E r \in IF Dangling(mem, iter)
                THEN {[res |-> "ok", val |-> v] : v \in WildValues}
                ELSE {Deref(mem, iter)} :
          Step(World, QCall("*", 0, 0, r.val, r.res), iter)

\* ------------------------------------------------------ specifications
NoHighWater == [on |-> FALSE, n |-> 0, offset |-> 0]
NoFifo == [on |-> FALSE, S |-> <<>>]

\* One arena of ArenaCap bytes used directly through allocate / deallocate.
\* The buffer's address is any multiple of NewAlign.
InitArena ==
    /\ \E k \in 1 .. 2 :
          arena = [a \in Arenas |->
                      IF a = 1 THEN NewArena(k * NewAlign, ArenaCap)
                      ELSE NewArena(4 * NewAlign, ArenaCap)]
    /\ queues = [q \in Queues |-> NoQueue]
    /\ mem = [p \in NodeAddrs |-> NoObject]
    /\ status = "running"
    /\ last = NoCall
    /\ highWater = NoHighWater
    /\ fifo = NoFifo
    /\ iter = Iterator(NULL)

\* The pointers a caller hands to deallocate: any block the arena has ever
\* returned, or a pointer it never returned (the buffer of the other arena).
DeallocPtrs(a) ==
    LivePtrs(arena[a]) \cup FreePtrs(arena[a]) \cup {arena[3 - a].memory_pool_}

NextArena ==
    \/ \E bytes \in AllocSizes, alignment \in Alignments : Allocate(1, bytes, alignment)
    \/ \E ptr \in DeallocPtrs(1), bytes \in AllocSizes : Deallocate(1, ptr, bytes)

SpecArena == InitArena /\ [][NextArena]_vars

\* One arena of ArenaCap bytes that is used, moved into a new object and
\* destroyed; the other object does not exist at the start.
InitMove ==
    /\ \E k \in 1 .. 2 :
          arena = [a \in Arenas |->
                      IF a = 1 THEN NewArena(k * NewAlign, ArenaCap) ELSE NoArena]
    /\ queues = [q \in Queues |-> NoQueue]
    /\ mem = [p \in NodeAddrs |-> NoObject]
    /\ status = "running"
    /\ last = NoCall
    /\ highWater = NoHighWater
    /\ fifo = NoFifo
    /\ iter = Iterator(NULL)

NextMove ==
    \/ \E a \in Arenas, bytes \in AllocSizes, alignment \in Alignments :
          arena[a].alive /\ Allocate(a, bytes, alignment)
    \/ \E a \in Arenas : \E ptr \in DeallocPtrs(a), bytes \in AllocSizes :
          arena[a].alive /\ Deallocate(a, ptr, bytes)
    \/ \E a, other \in Arenas : MoveArena(a, other)
    \/ \E a \in Arenas : DestroyArena(a)

SpecMove == InitMove /\ [][NextMove]_vars

\* The same calls on an arena of SmallCap bytes, which one request fills.
InitSmall ==
    /\ \E k \in 1 .. 2 :
          arena = [a \in Arenas |->
                      IF a = 1 THEN NewArena(k * NewAlign, SmallCap)
                      ELSE NewArena(4 * NewAlign, SmallCap)]
    /\ queues = [q \in Queues |-> NoQueue]
    /\ mem = [p \in NodeAddrs |-> NoObject]
    /\ status = "running"
    /\ last = NoCall
    /\ highWater = NoHighWater
    /\ fifo = NoFifo
    /\ iter = Iterator(NULL)

SpecSmall == InitSmall /\ [][NextArena]_vars

\* ---------------------------------------------------- claims: the arena
\* Two byte ranges [p1, p1+s1) and [p2, p2+s2) share a byte.
Overlap(p1, s1, p2, s2) == Max({p1, p2}) < Min({p1 + s1, p2 + s2})

\* C1: no two live blocks of an arena have overlapping byte ranges
\* [address, address+size), whatever sizes were passed to allocate and deallocate.
C1_NoLiveOverlap ==
    \A a \in Arenas : \A e1, e2 \in arena[a].allocated_blocks_ :
        e1 # e2 => ~Overlap(e1.ptr, e1.size, e2.ptr, e2.size)

\* The size allocated_blocks_ records for a live pointer.
RecordedSize(A, ptr) == (CHOOSE e \in A.allocated_blocks_ : e.ptr = ptr).size

\* C2: deallocate of a live address with a size argument that differs from
\* the recorded size fails with InvalidFree and leaves the arena unchanged.
C2_SizeMismatchRejected ==
    [][(/\ last'.op = "deallocate"
        /\ last'.ptr \in LivePtrs(arena[last'.a])
        /\ RecordedSize(arena[last'.a], last'.ptr) # last'.bytes)
       => (last'.res = "InvalidFree" /\ arena' = arena)]_vars

\* The free entries that qualify for a request: large enough and aligned.
Qualifying(A, bytes, alignment) ==
    {i \in 1 .. Len(A.free_blocks_) :
        A.free_blocks_[i].size >= bytes /\ A.free_blocks_[i].ptr % alignment = 0}

\* C3: an allocate that fails with OutOfMemory leaves the arena (offset, live
\* map, free index) as it was; and on an arena whose buffer is fully
\* bump-allocated, a request for one more byte that no free block can serve
\* fails with OutOfMemory.
C3_FailedAllocateChangesNothing ==
    [][last'.op = "allocate" =>
         LET A == arena[last'.a]
         IN  /\ last'.res = "OutOfMemory" => arena' = arena
             /\ (/\ A.current_offset_ = A.pool_size_
                 /\ last'.bytes = 1
                 /\ Qualifying(A, 1, last'.alignment) = {})
                => (last'.res = "OutOfMemory" /\ arena' = arena)]_vars

\* C3 witness: the one-more-byte request on a full buffer has just failed.
C3_Witness ==
    /\ last.op = "allocate" /\ last.res = "OutOfMemory" /\ last.bytes = 1
    /\ arena[1].current_offset_ = arena[1].pool_size_
    /\ arena[1].allocated_blocks_ # {}

\* C4: deallocate of an address that is not a live block of the arena fails
\* with InvalidFree and leaves offset, live map and free index unchanged.
C4_InvalidFreeRejected ==
    [][(last'.op = "deallocate" /\ last'.ptr \notin LivePtrs(arena[last'.a]))
       => (last'.res = "InvalidFree" /\ arena' = arena)]_vars

\* C4 witness: a block that was freed and not reused has been freed again, and
\* the call was rejected.
C4_Witness ==
    /\ last.op = "deallocate" /\ last.res = "InvalidFree"
    /\ last.ptr \in FreePtrs(arena[1])
    /\ last.ptr \notin LivePtrs(arena[1])

\* What C5 says of one allocate step from arena state A to B, apart from its
\* last sentence: reuse of a smallest qualifying entry whenever one exists,
\* a bump only when none does.
ReusePolicy(A, B, c) ==
    LET ok == Qualifying(A, c.bytes, c.alignment)
        fb == A.free_blocks_
    IN  /\ ok # {} =>
              /\ c.res = "ok"
              /\ \E i \in ok :
                    /\ fb[i].ptr = c.ptr
                    /\ \A j \in ok : fb[i].size <= fb[j].size
                    /\ B.free_blocks_ = RemoveAt(fb, i)
              /\ c.ptr \in LivePtrs(B)
              /\ B.current_offset_ = A.current_offset_
        /\ (ok = {} /\ c.res = "ok") =>
              /\ B.free_blocks_ = fb
              /\ c.ptr = W(A.memory_pool_ + AlignedOffset(A, c.alignment))
              /\ B.current_offset_ = W(AlignedOffset(A, c.alignment) + c.bytes)

\* The free index of an arena that was used as its contract asks: its entries
\* are disjoint blocks of positive size inside the bumped part of the buffer.
TidyFreeIndex(A) ==
    LET fb == A.free_blocks_
    IN  /\ \A i \in 1 .. Len(fb) :
              /\ fb[i].size >= 1
              /\ fb[i].ptr >= A.memory_pool_
              /\ fb[i].ptr + fb[i].size <= A.memory_pool_ + A.current_offset_
        /\ \A i, j \in 1 .. Len(fb) :
              i # j => ~Overlap(fb[i].ptr, fb[i].size, fb[j].ptr, fb[j].size)

\* C5 as stated: allocate reuses a smallest qualifying free entry whenever one
\* exists and bumps only otherwise; and allocate(s) right after a successful
\* deallocate(p, s) returns p (taken where it is least demanding: p is aligned
\* as the request asks and the free index is tidy).
C5_ReuseReturnsJustFreed ==
    [][last'.op = "allocate" =>
         /\ ReusePolicy(arena[last'.a], arena'[last'.a], last')
         /\ (/\ last.op = "deallocate" /\ last.res = "ok" /\ last.a = last'.a
             /\ last.bytes = last'.bytes
             /\ last.ptr % last'.alignment = 0
             /\ TidyFreeIndex(arena[last'.a]))
            => last'.ptr = last.ptr]_vars

\* C5 as amended: the same, but allocate(s, al) right after deallocate(p, s)
\* returns p only when no other free entry of recorded size s has an address
\* that is a multiple of al.
C5_ReuseSmallestQualifying ==
    [][last'.op = "allocate" =>
         LET A == arena[last'.a]
         IN  /\ ReusePolicy(A, arena'[last'.a], last')
             /\ (/\ last.op = "deallocate" /\ last.res = "ok" /\ last.a = last'.a
                 /\ last.bytes = last'.bytes
                 /\ last.ptr % last'.alignment = 0
                 /\ \A i \in Qualifying(A, last'.bytes, last'.alignment) :
                       A.free_blocks_[i].size = last'.bytes
                          => A.free_blocks_[i].ptr = last.ptr)
                => last'.ptr = last.ptr]_vars

\* C5 witness: an over-aligned request was served by reuse (the offset is not
\* where a bump of this block would have left it) while a free entry that is
\* large enough but misaligned stayed in the free index.
C5_Witness ==
    /\ last.op = "allocate" /\ last.res = "ok" /\ last.alignment = 2 * NewAlign
    /\ \E i \in 1 .. Len(arena[1].free_blocks_) :
          /\ arena[1].free_blocks_[i].size >= last.bytes
          /\ arena[1].free_blocks_[i].ptr % last.alignment # 0
    /\ arena[1].current_offset_ # W(last.ptr - arena[1].memory_pool_ + last.bytes)

\* -------------------------------------------- specifications: the queues
\* The start of a program that has built its arenas, of n * NodeSize bytes
\* each, and no Queue yet.
QueueInit(n) ==
    /\ arena = [a \in Arenas |-> NewArena(PoolBase(a), n * NodeSize)]
    /\ queues = [q \in Queues |-> NoQueue]
    /\ mem = [p \in NodeAddrs |-> NoObject]
    /\ status = "running"
    /\ last = NoCall
    /\ highWater = NoHighWater
    /\ fifo = NoFifo
    /\ iter = Iterator(NULL)

\* The calls a program makes on its Queue objects: the queues are constructed
\* on the arenas of R and hold values of V.
QueueCalls(R, V) ==
    \/ \E q \in Queues, mr \in R : Construct(q, mr)
    \/ \E q \in Queues : Destruct(q)
    \/ \E q \in Queues, value \in V : Push(q, value)
    \/ \E q \in Queues : Pop(q)
    \/ \E q \in Queues : Front(q)
    \/ \E q \in Queues : Back(q)
    \/ \E q \in Queues : Clear(q)
    \/ \E q, other \in Queues : CopyCtor(q, other)
    \/ \E q, other \in Queues : CopyAsg(q, other)
    \/ \E q, other \in Queues : MoveCtor(q, other)
    \/ \E q, other \in Queues : MoveAsg(q, other)
    \/ \E q \in Queues, value \in V : SetFront(q, value)

\* Queues on two arenas of CrossNodes * NodeSize bytes, copied, moved and
\* assigned across them; one element value, which plays no part in where the
\* Nodes live.
InitQueue == QueueInit(CrossNodes)
NextQueue == QueueCalls(Arenas, {1})
SpecQueue == InitQueue /\ [][NextQueue]_vars

\* All queues share arena 1, of MaxNodes * NodeSize bytes, which has no other
\* client.
InitShared == QueueInit(MaxNodes)
NextShared == QueueCalls({1}, Values)
SpecShared == InitShared /\ [][NextShared]_vars

\* One queue, the only client of an arena of ReuseNodes * NodeSize bytes.
InitReuse ==
    /\ arena = [a \in Arenas |-> NewArena(PoolBase(a), ReuseNodes * NodeSize)]
    /\ queues = [q \in Queues |-> IF q = 1 THEN NewQueue(1) ELSE NoQueue]
    /\ mem = [p \in NodeAddrs |-> NoObject]
    /\ status = "running"
    /\ last = NoCall
    /\ highWater = [on |-> TRUE, n |-> 0, offset |-> 0]
    /\ fifo = [on |-> TRUE, S |-> <<>>]
    /\ iter = Iterator(NULL)

NextReuse ==
    \/ \E value \in Values : Push(1, value)
    \/ Pop(1)

SpecReuse == InitReuse /\ [][NextReuse]_vars

\* The same queue, read through front() and back() as well.
NextFifo ==
    \/ \E value \in Values : Push(1, value)
    \/ Pop(1)
    \/ Front(1)
    \/ Back(1)

SpecFifo == InitReuse /\ [][NextFifo]_vars

\* Two queues on arena 1, of CopyNodes * NodeSize bytes: built, changed,
\* copied, moved and destroyed.
InitCopy == QueueInit(CopyNodes)
NextCopy ==
    \/ \E q \in Queues : Construct(q, 1)
    \/ \E q \in Queues : Destruct(q)
    \/ \E q \in Queues, value \in Values : Push(q, value)
    \/ \E q \in Queues : Pop(q)
    \/ \E q \in Queues : Clear(q)
    \/ \E q \in Queues, value \in Values : SetFront(q, value)
    \/ \E q, other \in Queues : CopyCtor(q, other)
    \/ \E q, other \in Queues : CopyAsg(q, other)
    \/ \E q, other \in Queues : MoveCtor(q, other)
    \/ \E q, other \in Queues : MoveAsg(q, other)
SpecCopy == InitCopy /\ [][NextCopy]_vars

\* One queue on an arena of MaxNodes * NodeSize bytes and one iterator over it.
InitIter ==
    /\ arena = [a \in Arenas |-> NewArena(PoolBase(a), MaxNodes * NodeSize)]
    /\ queues = [q \in Queues |-> IF q = 1 THEN NewQueue(1) ELSE NoQueue]
    /\ mem = [p \in NodeAddrs |-> NoObject]
    /\ status = "running"
    /\ last = NoCall
    /\ highWater = NoHighWater
    /\ fifo = [on |-> TRUE, S |-> <<>>]
    /\ iter = Iterator(NULL)

NextIter ==
    \/ \E value \in Values : Push(1, value)
    \/ Pop(1)
    \/ Begin(1)
    \/ End(1)
    \/ PreIncrement
    \/ PostIncrement
    \/ Star

SpecIter == InitIter /\ [][NextIter]_vars

\* --------------------------------------------------- claims: the queues
\* C6: reuse stability.  highWater.n is the largest length the queue has had
\* and highWater.offset the arena's offset when it first had it (after n
\* pushes); whatever pops and pushes followed, none taking the length above
\* n, the offset is still that one.
C6_ReuseStability ==
    arena[1].current_offset_ = highWater.offset

\* C6 witness: the queue was refilled to its largest length through reused
\* blocks (its head Node lies above its tail Node, which no bump order gives).
C6_Witness ==
    /\ last.op = "push" /\ last.res = "ok"
    /\ highWater.n >= 3
    /\ queues[1].size_ = highWater.n
    /\ queues[1].tail_ < queues[1].head_

LiveQueues == {q \in Queues : queues[q].alive}
RangeOf(s) == {s[i] : i \in 1 .. Len(s)}

\* C7: every Node in a Queue's chain is a live block of the arena the Queue's
\* allocator is bound to.
C7_NodesLiveInOwnArena ==
    \A q \in LiveQueues :
        RangeOf(Chain(q)) \subseteq LivePtrs(arena[queues[q].allocator_])

RECURSIVE SumSizes(_)
SumSizes(Q) ==
    IF Q = {} THEN 0
    ELSE LET q == CHOOSE x \in Q : TRUE IN queues[q].size_ + SumSizes(Q \ {q})

\* C8: the live-block count of an arena whose only clients are the Queues
\* bound to it equals the sum of their lengths.
C8_LiveCountIsSumOfLengths ==
    \A a \in Arenas :
        get_allocated_count(arena[a])
            = SumSizes({q \in LiveQueues : queues[q].allocator_ = a})

\* C9: head is none iff tail is none iff length is 0, after every operation
\* that returned, normally or with an error (the process is running).
C9_HeadTailLength ==
    status = "running" =>
        \A q \in LiveQueues :
            /\ (queues[q].head_ = NULL) <=> (queues[q].size_ = 0)
            /\ (queues[q].tail_ = NULL) <=> (queues[q].size_ = 0)

\* C10: length is the number of Nodes reachable from head, and tail is the
\* last of them, after every operation that returned, normally or with an
\* error (the process is running).
C10_LengthIsChainLength ==
    status = "running" =>
        \A q \in LiveQueues :
            /\ queues[q].size_ = Len(Chain(q))
            /\ queues[q].tail_ =
                  IF Chain(q) = <<>> THEN NULL ELSE Chain(q)[Len(Chain(q))]

\* C11: after any sequence of push and pop calls on one Queue, size() is the
\* number of pushes that succeeded minus the number of pops that succeeded
\* (the length of fifo.S, which grows by one on each and shrinks by one on
\* each); a failed push or pop does not change it.
C11_SizeIsPushesMinusPops ==
    queues[1].size_ = Len(fifo.S)

\* C11 witness: a push has just failed on the full queue, after pops and
\* pushes that went through reused blocks.
C11_Witness ==
    /\ last.op = "push" /\ last.res = "OutOfMemory"
    /\ queues[1].size_ = ReuseNodes
    /\ queues[1].tail_ < queues[1].head_

\* The values stored in the Nodes of a chain, in chain order.
RECURSIVE ValuesOf(_, _)
ValuesOf(m, chain) ==
    IF chain = <<>> THEN <<>>
    ELSE <<m[Head(chain)].data>> \o ValuesOf(m, Tail(chain))

\* C12: the Queue behaves as the FIFO sequence fifo.S (push appends, pop
\* removes the first): the values along the chain from head are fifo.S,
\* front() returns its first element and back() its last.
C12_FifoRefinement ==
    /\ ValuesOf(mem, Chain(1)) = fifo.S
    /\ last.op = "front" =>
          IF fifo.S = <<>> THEN last.res = "EmptyQueueError"
          ELSE last.res = "ok" /\ last.val = fifo.S[1]
    /\ last.op = "back" =>
          IF fifo.S = <<>> THEN last.res = "EmptyQueueError"
          ELSE last.res = "ok" /\ last.val = fifo.S[Len(fifo.S)]

\* C12 witness: back() has answered on a queue of three or more values whose
\* first and last differ and whose Nodes are reused blocks.
C12_Witness ==
    /\ last.op = "back" /\ last.res = "ok"
    /\ Len(fifo.S) >= 3
    /\ fifo.S[1] # fifo.S[Len(fifo.S)]
    /\ queues[1].tail_ < queues[1].head_

\* C13: a freshly constructed Queue is empty; on an empty Queue (fresh, fully
\* popped, cleared or moved-from) front(), back() and pop() fail with
\* EmptyQueueError and leave the Queue (head, tail, length), the Nodes and the
\* Arena (offset, live blocks, free index) unchanged.
C13_EmptyQueueErrors ==
    [][/\ last'.op = "Queue" =>
             /\ queues'[last'.q].size_ = 0
             /\ queues'[last'.q].head_ = NULL
             /\ queues'[last'.q].tail_ = NULL
       /\ (/\ last'.op \in {"front", "back", "pop"}
           /\ queues[last'.q].size_ = 0)
          => /\ last'.res = "EmptyQueueError"
             /\ queues' = queues
             /\ mem' = mem
             /\ arena' = arena]_vars

\* C13 witness: pop() has just failed on a queue that is empty while the free
\* index holds Nodes released earlier and the other queue holds elements.
C13_Witness ==
    /\ last.op = "pop" /\ last.res = "EmptyQueueError"
    /\ queues[last.q].size_ = 0
    /\ arena[1].free_blocks_ # <<>>
    /\ queues[3 - last.q].size_ > 0

\* C14: a push that fails with OutOfMemory leaves the Queue (head, tail,
\* length, stored values) and the Arena (offset, live blocks, free index)
\* as they were.
C14_FailedPushChangesNothing ==
    [][(last'.op = "push" /\ last'.res = "OutOfMemory")
       => (queues' = queues /\ mem' = mem /\ arena' = arena)]_vars

\* C14 witness: a push has just failed on a non-empty queue whose arena is
\* bumped to its end and has no free block.
C14_Witness ==
    /\ last.op = "push" /\ last.res = "OutOfMemory"
    /\ queues[last.q].size_ > 0
    /\ arena[1].current_offset_ = arena[1].pool_size_
    /\ arena[1].free_blocks_ = <<>>

\* The chain of queue q and the values in it, in the state with Nodes m and
\* Queue objects Qs.
ChainIn(m, Qs, q) == ChainFrom(m, Qs[q].head_, Cardinality(NodeAddrs) + 1)
ValuesIn(m, Qs, q) == ValuesOf(m, ChainIn(m, Qs, q))

\* C15: copy construction yields a Queue with the same values in the same
\* order whose Nodes are disjoint from the original's; afterwards a push, pop,
\* clear or in-place change of an element on one Queue leaves the values and
\* the length of the other unchanged.
C15_CopyIsIndependent ==
    [][LET q == last'.q
           other == last'.other
       IN  /\ (last'.op = "copy" /\ last'.res = "ok") =>
                 /\ ValuesIn(mem', queues', q) = ValuesIn(mem, queues, other)
                 /\ queues'[q].size_ = queues[other].size_
                 /\ ValuesIn(mem', queues', other) = ValuesIn(mem, queues, other)
                 /\ queues'[other] = queues[other]
                 /\ RangeOf(ChainIn(mem', queues', q))
                       \cap RangeOf(ChainIn(mem', queues', other)) = {}
           /\ last'.op \in {"push", "pop", "clear", "front="} =>
                 \A r \in LiveQueues \ {q} :
                    /\ ValuesIn(mem', queues', r) = ValuesIn(mem, queues, r)
                    /\ queues'[r] = queues[r]]_vars

\* C15 witness: a queue of two different values has just been copied.
C15_Witness ==
    /\ last.op = "copy" /\ last.res = "ok"
    /\ queues[last.q].size_ = 2
    /\ ValuesIn(mem, queues, last.q)[1] # ValuesIn(mem, queues, last.q)[2]
    /\ ValuesIn(mem, queues, last.other) = ValuesIn(mem, queues, last.q)

C17_MoveTransfersNodes ==
    [][(last'.op \in {"move", "move="} /\ last'.res = "ok" /\ last'.q # last'.other) =>
         LET B == last'.q
             A == last'.other
         IN  /\ ChainIn(mem', queues', B) = ChainIn(mem, queues, A)
             /\ ValuesIn(mem', queues', B) = ValuesIn(mem, queues, A)
             /\ queues'[B].size_ = queues[A].size_
             /\ queues'[A] = NewQueue(queues[A].allocator_)
             /\ \A a \in Arenas :
                   /\ arena'[a].current_offset_ = arena[a].current_offset_
                   /\ LivePtrs(arena'[a]) \subseteq LivePtrs(arena[a])]_vars

\* C17 witness: a queue of two values has just been move-assigned to a queue
\* that held elements, whose Nodes went to the free index.
C17_Witness ==
    /\ last.op = "move=" /\ last.res = "ok" /\ last.q # last.other
    /\ queues[last.q].size_ = 2
    /\ queues[last.other].size_ = 0
    /\ arena[1].free_blocks_ # <<>>

\* ------------------------------------------------- claims: the iterator
\* The iterator after k applications of operator++.
RECURSIVE Advance(_, _, _)
Advance(m, it, k) == IF k = 0 THEN it ELSE Advance(m, Increment(m, it), k - 1)

\* The values read by *it, ++it, *it, ... until the iterator is at the end
\* (at most n of them).
RECURSIVE Walk(_, _, _)
Walk(m, it, n) ==
    IF n = 0 \/ IterEq(it, Iterator(NULL)) THEN <<>>
    ELSE <<Deref(m, it).val>> \o Walk(m, Increment(m, it), n - 1)

\* The iterator points at the k-th Node of the queue's chain.
AtNode(k) == k \in 1 .. Len(Chain(1)) /\ iter.current_ = Chain(1)[k]

\* What C18 says of every state: for the queue holding fifo.S = v1..vn,
\* begin() advanced k < n times is not end() and dereferences to v(k+1),
\* advanced n times it equals end(); begin() == end() iff the queue is empty;
\* end() does not dereference and stays where it is when advanced; and a
\* call of operator* has answered accordingly.
IteratorReads ==
    LET n == Len(fifo.S)
        b == begin(World, 1)
        e == end(World, 1)
    IN  /\ \A k \in 0 .. n - 1 :
              /\ IterNe(Advance(mem, b, k), e)
              /\ Deref(mem, Advance(mem, b, k)) = [res |-> "ok", val |-> fifo.S[k + 1]]
        /\ IterEq(Advance(mem, b, n), e)
        /\ IterEq(b, e) <=> queues[1].size_ = 0
        /\ Deref(mem, e).res = "DereferenceError"
        /\ Increment(mem, e) = e
        /\ last.op = "*" =>
              /\ IterEq(iter, e) => last.res = "DereferenceError"
              /\ \A k \in 1 .. n :
                    AtNode(k) => (last.res = "ok" /\ last.val = fifo.S[k])

\* What C18 says of every advance: from the k-th Node to the next one, from
\* the last Node to the end, and at the end no move.
IteratorMoves ==
    last'.op \in {"++", "++(int)"} =>
        /\ IterEq(iter, Iterator(NULL)) => iter' = iter
        /\ \A k \in 1 .. Len(Chain(1)) :
              AtNode(k) =>
                 iter'.current_ = IF k = Len(Chain(1)) THEN NULL ELSE Chain(1)[k + 1]

\* C18: an iterator obtained from begin() dereferences to v1..vn on
\* successive advances and equals end() after exactly n advances (so
\* begin() == end() iff the queue is empty); dereferencing at the end fails
\* with DereferenceError and advancing at the end stays at the end.
C18_IteratorTraversal == []IteratorReads /\ [][IteratorMoves]_vars

\* C18 witness: the iterator has been dereferenced at the last Node of a full
\* queue whose first and last values differ.
C18_Witness ==
    /\ last.op = "*" /\ last.res = "ok"
    /\ Len(fifo.S) = MaxNodes
    /\ AtNode(MaxNodes)
    /\ last.val = fifo.S[MaxNodes]
    /\ fifo.S[1] # fifo.S[MaxNodes]

\* C19: an iterator that references a Node of the queue references the same
\* Node with the same value after a push, and advancing from it goes on
\* through the Node the push appended (so, push after push, through all of
\* them in push order).
C19_PushKeepsIterators ==
    [][(/\ last'.op = "push" /\ last'.res = "ok"
        /\ iter.current_ \in RangeOf(Chain(1)))
       => /\ iter' = iter
          /\ iter'.current_ \in RangeOf(ChainIn(mem', queues', 1))
          /\ Deref(mem', iter') = Deref(mem, iter)
          /\ Walk(mem', iter', Cardinality(NodeAddrs))
                = Append(Walk(mem, iter, Cardinality(NodeAddrs)), last'.val)]_vars

\* C19 witness: a push has just succeeded while the iterator stood on a Node
\* in the middle of the queue, two steps before the end.
C19_Witness ==
    /\ last.op = "push" /\ last.res = "ok"
    /\ AtNode(2)
    /\ Len(Chain(1)) = 3
    /\ Len(Walk(mem, iter, Cardinality(NodeAddrs))) = 2

\* ------------------------------------------------ claims: the arithmetic
\* current_offset_ rounded up to a multiple of alignment, in the integers.
TrueAlignedOffset(A, alignment) ==
    ((A.current_offset_ + alignment - 1) \div alignment) * alignment

\* C20: for every request (bytes, alignment) representable in size_t, when no
\* free block is reused and the aligned offset plus bytes, taken in the
\* integers, exceeds pool_size_, allocate fails with OutOfMemory; also when
\* the size_t sum wraps modulo Word.
C20_OverflowRejected ==
    [][(/\ last'.op = "allocate"
        /\ Qualifying(arena[last'.a], last'.bytes, last'.alignment) = {}
        /\ TrueAlignedOffset(arena[last'.a], last'.alignment) + last'.bytes
              > arena[last'.a].pool_size_)
       => last'.res = "OutOfMemory"]_vars

\* ------------------------------------------- claims: the arena, continued
\* C21: for all request sizes, 0 included, current_offset_ <= pool_size_ and
\* every address in the bookkeeping (live map or free index) lies within
\* [memory_pool_, memory_pool_ + pool_size_).
C21_AddressesInBuffer ==
    \A a \in Arenas :
        /\ arena[a].current_offset_ <= arena[a].pool_size_
        /\ \A p \in LivePtrs(arena[a]) \cup FreePtrs(arena[a]) :
              /\ arena[a].memory_pool_ <= p
              /\ p < arena[a].memory_pool_ + arena[a].pool_size_

\* C22: current_offset_ never decreases: deallocate, a failed allocate and an
\* allocate served by reuse leave it unchanged, and only a successful bump
\* increases it.
C22_OffsetNeverDecreases ==
    [][\A a \in Arenas :
          LET A == arena[a]
              reuse == Qualifying(A, last'.bytes, last'.alignment) # {}
          IN  /\ arena'[a].current_offset_ >= A.current_offset_
              /\ (\/ last'.op = "deallocate"
                  \/ last'.op = "allocate" /\ last'.res = "OutOfMemory"
                  \/ last'.op = "allocate" /\ last'.a = a /\ reuse)
                 => arena'[a].current_offset_ = A.current_offset_]_vars

\* The bookkeeping of an arena: the [ptr, size] entries of the live map and
\* of the free index.
Registry(A) == A.allocated_blocks_ \cup RangeOf(A.free_blocks_)

\* The bookkeeping of an arena that was used as its contract asks: the
\* recorded blocks are disjoint, of positive size and inside the bumped part
\* of the buffer.
TidyRegistry(A) ==
    /\ \A e \in Registry(A) :
          /\ e.size >= 1
          /\ e.ptr >= A.memory_pool_
          /\ e.ptr + e.size <= A.memory_pool_ + A.current_offset_
    /\ \A e1, e2 \in Registry(A) :
          e1 # e2 => ~Overlap(e1.ptr, e1.size, e2.ptr, e2.size)
    /\ Cardinality(Registry(A)) = RegistrySize(A)

\* C23: every address a bump allocation returned stays in the bookkeeping,
\* live or free, with the size it was bump-allocated with, also when a freed
\* block is reused for a smaller request and freed again.  Step by step:
\* every recorded [ptr, size] is still recorded after an allocate, or after a
\* deallocate called with the recorded size (taken where it is least
\* demanding: on a tidy bookkeeping).
C23_RecordedSizesKept ==
    [][(/\ TidyRegistry(arena[1])
        /\ \/ last'.op = "allocate"
           \/ /\ last'.op = "deallocate"
              /\ last'.ptr \in LivePtrs(arena[1])
              /\ last'.bytes = RecordedSize(arena[1], last'.ptr))
       => Registry(arena[1]) \subseteq Registry(arena'[1])]_vars

\* C25: every address a successful allocate(bytes, alignment) returns, by
\* reuse or by bump, is a multiple of alignment as an absolute address, for
\* every power-of-two alignment and every address the buffer may have.
C25_ReturnedAddressAligned ==
    [][(last'.op = "allocate" /\ last'.res = "ok")
       => last'.ptr % last'.alignment = 0]_vars

\* C26: no two outstanding allocations of one arena have the same address,
\* for all request sizes, 0 included: allocate never returns an address
\* that is live.
C26_OutstandingAddressesDistinct ==
    [][(last'.op = "allocate" /\ last'.res = "ok")
       => last'.ptr \notin LivePtrs(arena[last'.a])]_vars

\* C27: a successful allocate increases the live-block count by exactly 1,
\* and decreases the free-block count by 1 exactly when it reused a block; a
\* successful deallocate decreases the live-block count by 1, increases the
\* free-block count by 1 and leaves the offset unchanged.
C27_CountsMoveByOne ==
    [][LET A == arena[1]
           B == arena'[1]
       IN  /\ (last'.op = "allocate" /\ last'.res = "ok") =>
                 /\ get_allocated_count(B) = get_allocated_count(A) + 1
                 /\ get_free_count(B) =
                       IF Qualifying(A, last'.bytes, last'.alignment) # {}
                       THEN get_free_count(A) - 1 ELSE get_free_count(A)
           /\ (last'.op = "deallocate" /\ last'.res = "ok") =>
                 /\ get_allocated_count(B) = get_allocated_count(A) - 1
                 /\ get_free_count(B) = get_free_count(A) + 1
                 /\ get_current_offset(B) = get_current_offset(A)]_vars

\* ----------------------------------------- claims: the queues, continued
NoDuplicates(s) == \A i, j \in 1 .. Len(s) : i # j => s[i] # s[j]

\* C24: Node ownership is a single forward chain: no Node address occurs
\* twice in one Queue's chain, the chain ends in none, and no Node address
\* occurs in the chains of two Queues, for Queues sharing one arena whose
\* freed Nodes are reused by later pushes of either.
C24_SingleForwardChain ==
    \A q \in LiveQueues :
        /\ NoDuplicates(Chain(q))
        /\ Chain(q) # <<>> => mem[Chain(q)[Len(Chain(q))]].next = NULL
        /\ \A r \in LiveQueues \ {q} :
              RangeOf(Chain(q)) \cap RangeOf(Chain(r)) = {}

\* C24 witness: two queues of two Nodes each, both linked through reused
\* storage against address order.
C24_Witness ==
    /\ LiveQueues = Queues
    /\ \A q \in Queues : queues[q].size_ = 2 /\ queues[q].tail_ < queues[q].head_

\* C28: a copy construction that fails with OutOfMemory partway leaks no
\* Node: the arena's live-block count is what it was before the call, and the
\* source Queue is unchanged.
C28_FailedCopyLeaksNothing ==
    [][(last'.op = "copy" /\ last'.res = "OutOfMemory") =>
         /\ \A a \in Arenas :
               get_allocated_count(arena'[a]) = get_allocated_count(arena[a])
         /\ queues'[last'.other] = queues[last'.other]
         /\ ValuesIn(mem', queues', last'.other) = ValuesIn(mem, queues, last'.other)]_vars

IsPrefix(s, t) == Len(s) <= Len(t) /\ s = SubSeq(t, 1, Len(s))

\* C29: after dst = src failed with OutOfMemory partway, dst holds a prefix
\* of src's values in src's order, its length is the number of Nodes
\* reachable from head, tail is the last of them, head is none iff tail is
\* none iff the length is 0, every Node of dst is a live block of dst's arena,
\* and src is unchanged.
C29_FailedCopyAssignKeepsPrefix ==
    [][(last'.op = "copy=" /\ last'.res = "OutOfMemory") =>
         LET dst == last'.q
             src == last'.other
             D == queues'[dst]
             chain == ChainIn(mem', queues', dst)
         IN  /\ IsPrefix(ValuesIn(mem', queues', dst), ValuesIn(mem, queues, src))
             /\ D.size_ = Len(chain)
             /\ D.tail_ = IF chain = <<>> THEN NULL ELSE chain[Len(chain)]
             /\ (D.head_ = NULL) <=> (D.size_ = 0)
             /\ (D.tail_ = NULL) <=> (D.size_ = 0)
             /\ RangeOf(chain) \subseteq LivePtrs(arena'[D.allocator_])
             /\ queues'[src] = queues[src]
             /\ ChainIn(mem', queues', src) = ChainIn(mem, queues, src)
             /\ ValuesIn(mem', queues', src) = ValuesIn(mem, queues, src)]_vars

\* C29 witness: an assignment has just failed after it copied the first of
\* the source's values, which differs from the second.
C29_Witness ==
    /\ last.op = "copy=" /\ last.res = "OutOfMemory"
    /\ queues[last.q].size_ = 1
    /\ queues[last.other].size_ >= 2
    /\ ValuesIn(mem, queues, last.other)[1] # ValuesIn(mem, queues, last.other)[2]
    /\ ValuesIn(mem, queues, last.q)[1] = ValuesIn(mem, queues, last.other)[1]

\* ------------------------------------------ claims: moving the arena
\* C30: move construction transfers the buffer, the offset and the live and
\* free bookkeeping to the new arena, which reports the source's former
\* live-block count and accepts deallocate for every block that was live;
\* the moved-from arena reports zero live blocks, offset 0 and capacity 0,
\* and fails every allocate of positive size with OutOfMemory.
C30_ArenaMoveTransfers ==
    [][/\ last'.op = "arena-move" =>
             LET Src == arena[last'.other]
                 New == arena'[last'.a]
                 Old == arena'[last'.other]
             IN  /\ New.memory_pool_ = Src.memory_pool_
                 /\ New.pool_size_ = Src.pool_size_
                 /\ get_current_offset(New) = get_current_offset(Src)
                 /\ New.allocated_blocks_ = Src.allocated_blocks_
                 /\ New.free_blocks_ = Src.free_blocks_
                 /\ get_allocated_count(New) = get_allocated_count(Src)
                 /\ \A e \in Src.allocated_blocks_ :
                       do_deallocate(New, e.ptr, e.size).res = "ok"
                 /\ get_allocated_count(Old) = 0
                 /\ get_current_offset(Old) = 0
                 /\ Old.pool_size_ = 0
                 /\ \A bytes \in AllocSizes \ {0}, alignment \in Alignments :
                       do_allocate(Old, bytes, alignment).res = "OutOfMemory"
       /\ (/\ last'.op = "allocate" /\ last'.bytes > 0
           /\ last.op = "arena-move" /\ last.other = last'.a)
          => last'.res = "OutOfMemory"]_vars

\* C30 witness: an allocate of positive size has just failed on the arena
\* that was moved from, while the new arena holds the live and the free block
\* of the source.
C30_Witness ==
    /\ last.op = "allocate" /\ last.res = "OutOfMemory" /\ last.bytes > 0
    /\ arena[last.a].alive /\ arena[last.a].memory_pool_ = 0
    /\ arena[last.a].pool_size_ = 0
    /\ arena[3 - last.a].alive
    /\ arena[3 - last.a].allocated_blocks_ # {}
    /\ arena[3 - last.a].free_blocks_ # <<>>

\* ------------------------------------------------ claims: clear()
\* Queue q has size() Nodes on its chain and each is a live block of the
\* arena its allocator_ is bound to.
OwnNodes(q) ==
    /\ Len(Chain(q)) = queues[q].size_
    /\ RangeOf(Chain(q)) \subseteq LivePtrs(arena[queues[q].allocator_])

\* C31: clear() on a Queue of length n whose Nodes all belong to its arena
\* ends normally after exactly n pops and leaves size() = 0 and empty() true,
\* with the n Nodes no longer live and allocator_ bound to the same arena; a
\* push that follows a clear() takes its Node from that arena and leaves the
\* other arenas as they were.
C31_ClearEmptiesKeepsBinding ==
    [][LET After == [arena |-> arena', queues |-> queues', mem |-> mem']
       IN  /\ (last'.op = "clear" /\ OwnNodes(last'.q)) =>
                 LET q == last'.q
                     a == queues[q].allocator_
                 IN  /\ last'.res = "ok" /\ status' = "running"
                     /\ last'.val = size(World, q)
                     /\ size(After, q) = 0 /\ empty(After, q)
                     /\ queues'[q] = NewQueue(a)
                     /\ RangeOf(Chain(q)) \cap LivePtrs(arena'[a]) = {}
                     /\ get_allocated_count(arena'[a])
                           = get_allocated_count(arena[a]) - size(World, q)
                     /\ \A b \in Arenas \ {a} : arena'[b] = arena[b]
           /\ (/\ last.op = "clear" /\ last.res = "ok"
               /\ last'.op = "push" /\ last'.q = last.q /\ last'.res = "ok") =>
                 LET q == last'.q
                     a == queues[q].allocator_
                 IN  /\ queues'[q].allocator_ = a
                     /\ size(After, q) = 1
                     /\ queues'[q].head_ \in LivePtrs(arena'[a]) \ LivePtrs(arena[a])
                     /\ \A b \in Arenas \ {a} : arena'[b] = arena[b]]_vars

\* C31 witness: clear() has just emptied, in CrossNodes pops, a queue bound to
\* arena 2 while a queue bound to arena 1 holds a Node and arena 1 has room
\* for another; a push on the cleared queue succeeds.
C31_Witness ==
    /\ last.op = "clear" /\ last.res = "ok" /\ last.val = CrossNodes
    /\ queues[last.q].allocator_ = 2 /\ size(World, last.q) = 0
    /\ \E o \in LiveQueues : queues[o].allocator_ = 1 /\ size(World, o) = 1
    /\ get_allocated_count(arena[1]) = 1
    /\ push(World, last.q, 1).res = "ok"

=============================================================================
